---- MODULE Spec2Model ----
(***************************************************************************)
(* A model of backend/main.py: the WeChat login / session-token lifecycle, *)
(* profile writes, the chat relay (prompt assembly, SSE streaming,         *)
(* suggestions), the product listing and detail, and the database          *)
(* connections of the handlers.                                            *)
(*                                                                         *)
(* Text values are TLA+ strings.  A nullable value (Python None / SQL      *)
(* NULL) is an option: None == <<>> and Some(v) == <<v>>.                  *)
(* Non-ASCII literals of the source are written as ASCII glosses; the      *)
(* comment at each definition gives the source literal's code points.      *)
(***************************************************************************)
EXTENDS Integers, Sequences, FiniteSets, TLC

VARIABLES
    \* ---- relational store (auth tables) ----
    users,           \* table users: sequence of rows, row id = index (AUTO_INCREMENT)
    user_auths,      \* table user_auths: sequence of rows
    user_sessions,   \* table user_sessions: sequence of rows
    now,             \* wall clock, in days since the model's epoch
    response,        \* the last HTTP response sent by an auth endpoint
    returned,        \* history: the return values of create_session
    \* ---- concurrent logins (one worker process per request) ----
    unique_auth_key, \* whether the schema declares UNIQUE(provider, provider_user_id)
    pc,              \* per worker: position inside wechat_login
    req,             \* per worker: the request's inputs
    user_id_of,      \* per worker: local variable user_id of get_or_create_user
    row_of,          \* per worker: local variable row (result of the SELECT)
    \* ---- chat relay ----
    chat_request,    \* the ChatRequest sent to /chat and to /chat/stream
    upstream,        \* what the completion API will do for this request
    chat_prompt,     \* /chat: the messages passed to the completion API
    chat_response,   \* /chat: the HTTP response
    stream_prompt,   \* /chat/stream: the messages passed to the completion API
    stream_pc,       \* /chat/stream: position of generate()
    chunk_pos,       \* /chat/stream: chunks of the upstream stream consumed so far
    full_response,   \* /chat/stream: local variable full_response
    events,          \* /chat/stream: the SSE events yielded so far
    \* ---- suggestions ----
    sg_message,      \* generate_suggestions: argument user_message
    sg_ai,           \* generate_suggestions: argument ai_response
    sg_out,          \* generate_suggestions: the list returned
    \* ---- catalog ----
    products,        \* table products: sequence of rows, product_id = index
    prod_request,    \* GET /products: the query parameters of the last request
    prod_response,   \* GET /products: the last response
    \* ---- product detail ----
    affiliate_links, \* table product_affiliate_links: sequence of rows, link_id = index
    detail_request,  \* GET /products/{product_id}: the path parameter of the last request
    detail_response, \* GET /products/{product_id}: the last response
    \* ---- database connections ----
    call,            \* per worker: the handler being served and where it stands
    db_connections,  \* the number of connections the database server holds open
    \* ---- profile writes ----
    last_write       \* history: the last request that may write profile fields

authVars  == <<users, user_auths, user_sessions, now, response, returned>>
loginVars == <<unique_auth_key, pc, req, user_id_of, row_of>>
chatVars  == <<chat_request, upstream, chat_prompt, chat_response, stream_prompt,
               stream_pc, chunk_pos, full_response, events>>
sugVars   == <<sg_message, sg_ai, sg_out>>
prodVars  == <<products, prod_request, prod_response>>
detailVars == <<affiliate_links, detail_request, detail_response>>
connVars  == <<call, db_connections>>
profVars  == <<last_write>>
vars      == <<authVars, loginVars, chatVars, sugVars, prodVars, detailVars, connVars,
               profVars>>

(***************************************************************************)
(* Bounds of the model.                                                    *)
(***************************************************************************)
MaxTime     == 2    \* the clock runs over 0..MaxTime days
MaxSessions == 2    \* at most this many logins in the token-lifecycle specification
MaxWorkers  == 2    \* worker processes serving one login request each, concurrently
MaxHistory  == 21   \* a ChatRequest carries at most this many history turns
MaxChunks   == 3    \* the upstream stream delivers at most this many chunks
MaxParts    == 2    \* a user message is made of at most this many parts
MaxProducts == 2    \* rows of the products table
MaxPage     == 2    \* GET /products: page runs over 1..MaxPage
MaxLimit    == 2    \* GET /products: limit runs over 1..MaxLimit
MaxLinks    == 2    \* rows of the product_affiliate_links table

None        == <<>>
Some(v)     == <<v>>
IsNone(o)   == o = <<>>
Get(o)      == o[1]

Min(a, b)   == IF a < b THEN a ELSE b

(***************************************************************************)
(* Configuration.  Both lifetimes are read from the environment           *)
(* (int(os.getenv(...)), defaults 7 and 30 days); the model runs a         *)
(* deployment configured with short lifetimes, so that a session expires   *)
(* within the clock's range.                                               *)
(***************************************************************************)
ACCESS_TOKEN_EXPIRES_DAYS  == 1
REFRESH_TOKEN_EXPIRES_DAYS == 2
\* datetime.timestamp() * 1000 of a clock counted in days
MsPerDay == 86400000
timestamp_ms(t) == t * MsPerDay

(***************************************************************************)
(* hash_token: sha256 hex digest.  Injective on the tokens of the model    *)
(* (collision resistance) and never the identity.                          *)
(***************************************************************************)
hash_token(token) == "sha256(" \o token \o ")"

(***************************************************************************)
(* secrets.token_urlsafe: the n-th draw is a fresh string, distinct from   *)
(* every earlier draw; 32 bytes give a 43-character string and 48 bytes a  *)
(* 64-character one, so an access token never equals a refresh token.      *)
(***************************************************************************)
token_urlsafe_32(n) == "acc" \o ToString(n)
token_urlsafe_48(n) == "ref" \o ToString(n)

(***************************************************************************)
(* json.dumps({"access_expires_at": ms}) and json.loads of the meta column.*)
(***************************************************************************)
MetaRange == { timestamp_ms(t) : t \in 0..(MaxTime + ACCESS_TOKEN_EXPIRES_DAYS + 1) }
json_dumps_meta(ms) == "{\"access_expires_at\": " \o ToString(ms) \o "}"
\* the documents json.loads can read back: <<text, value>>
MetaDocuments == { <<json_dumps_meta(ms), ms>> : ms \in MetaRange }
json_loads_meta(text) ==
    IF \E d \in MetaDocuments : d[1] = text
    THEN [ok |-> TRUE,
          access_expires_at |-> Some((CHOOSE d \in MetaDocuments : d[1] = text)[2])]
    ELSE [ok |-> FALSE, access_expires_at |-> None]

(***************************************************************************)
(* Request inputs.                                                         *)
(***************************************************************************)
Openids     == {"openid1", "openid2"}
ClientHosts == {Some("10.0.0.1")}
\* WechatProfile (the fields the handlers read, plus one of the pass-through fields)
NoProfile   == None
Profile(nick, avatar, lang) == [nickName |-> nick, avatarUrl |-> avatar, language |-> lang]
LoginProfiles == {NoProfile, Some(Profile(Some("Ann"), None, Some("zh_CN")))}
\* the token-lifecycle specification logs in without a profile
AuthLoginProfiles == {NoProfile}
\* UpdateProfileRequest
ProfilePayloads == {[nickName |-> None, avatarUrl |-> None],
                    [nickName |-> Some("Bob"), avatarUrl |-> None]}
\* the result of code2session: an errcode, a body without openid, or an openid
Code2SessionResults ==
    {[errcode |-> 40029, openid |-> None], [errcode |-> 0, openid |-> None]}
        \cup {[errcode |-> 0, openid |-> Some(o)] : o \in Openids}

\* json.dumps(profile.dict(exclude_none=True))
json_field(name, o) == IF IsNone(o) THEN "" ELSE "\"" \o name \o "\": \"" \o Get(o) \o "\" "
json_dumps_profile(p) ==
    "{" \o json_field("nickName", p.nickName) \o json_field("avatarUrl", p.avatarUrl)
        \o json_field("language", p.language) \o "}"

\* json.dumps({"nickName": ..., "avatarUrl": ...}, ensure_ascii=False): a None
\* value is written as null
json_value(o) == IF IsNone(o) THEN "null" ELSE "\"" \o Get(o) \o "\""
json_dumps_payload(payload) ==
    "{\"nickName\": " \o json_value(payload.nickName)
        \o ", \"avatarUrl\": " \o json_value(payload.avatarUrl) \o "}"

\* Python truthiness of an Optional[str] / Optional[int]
TruthyStr(o) == ~IsNone(o) /\ Get(o) # ""
TruthyInt(o) == ~IsNone(o) /\ Get(o) # 0

\* (variant: the incoming value is stored even when it is NULL)
COALESCE_incoming_always(incoming, stored) == incoming

\* SQL COALESCE(incoming, stored)
COALESCE(incoming, stored) == IF IsNone(incoming) THEN stored ELSE incoming

(***************************************************************************)
(* The statements of get_or_create_user, each one autocommitted.           *)
(***************************************************************************)
\* SELECT users.id FROM user_auths JOIN users ... WHERE provider, provider_user_id
select_user_auth(U, A, openid) ==
    { A[i].user_id : i \in { j \in 1..Len(A) :
          /\ A[j].provider = "wechat"
          /\ A[j].provider_user_id = openid
          /\ A[j].user_id \in 1..Len(U) } }

\* cursor.fetchone(): one of the rows, or None
fetchone(rows) == IF rows = {} THEN {None} ELSE { Some(r) : r \in rows }

\* INSERT INTO users (uuid, username, avatar, profile); lastrowid is the new id
insert_user(U, profile) ==
    Append(U, [uuid          |-> "uuid" \o ToString(Len(U) + 1),
               username      |-> IF IsNone(profile) THEN None ELSE Get(profile).nickName,
               avatar        |-> IF IsNone(profile) THEN None ELSE Get(profile).avatarUrl,
               profile       |-> IF IsNone(profile) THEN None
                                 ELSE Some(json_dumps_profile(Get(profile))),
               last_login_at |-> None,
               last_login_ip |-> None])

\* whether INSERT INTO user_auths raises a duplicate-key error
insert_auth_fails(A, uniq, openid) ==
    uniq /\ \E j \in 1..Len(A) :
                A[j].provider = "wechat" /\ A[j].provider_user_id = openid

\* INSERT INTO user_auths (user_id, provider, provider_user_id, verified)
insert_user_auth(A, user_id, openid) ==
    Append(A, [user_id |-> user_id, provider |-> "wechat",
               provider_user_id |-> openid, verified |-> 1])

\* UPDATE users SET username = COALESCE(..), avatar = .., profile = .. WHERE id
update_user_profile(U, user_id, nick, avatar, blob) ==
    [ i \in 1..Len(U) |->
        IF i = user_id
        THEN [U[i] EXCEPT !.username = COALESCE(nick, @),
                          !.avatar   = COALESCE(avatar, @),
                          !.profile  = COALESCE(blob, @)]
        ELSE U[i] ]

\* UPDATE users SET last_login_at = NOW(), last_login_ip = %s WHERE id
update_last_login(U, user_id, t, host) ==
    [ i \in 1..Len(U) |->
        IF i = user_id
        THEN [U[i] EXCEPT !.last_login_at = Some(t), !.last_login_ip = host]
        ELSE U[i] ]

\* the profile branch: if profile: UPDATE users ...
apply_login_profile(U, user_id, profile) ==
    IF IsNone(profile) THEN U
    ELSE update_user_profile(U, user_id, Get(profile).nickName, Get(profile).avatarUrl,
                             Some(json_dumps_profile(Get(profile))))

\* get_or_create_user run without interruption, given the row the SELECT fetched
\* (the statement guarded by "if unionid" sets provider_user_id to itself and
\* changes no row)
get_or_create_user(U, A, openid, profile, host, t, row) ==
    LET created == IsNone(row)
        U1      == IF created THEN insert_user(U, profile) ELSE U
        user_id == IF created THEN Len(U1) ELSE Get(row)
        A1      == IF created THEN insert_user_auth(A, user_id, openid) ELSE A
        U2      == apply_login_profile(U1, user_id, profile)
        U3      == update_last_login(U2, user_id, t, host)
    IN  [user_id |-> user_id, users |-> U3, user_auths |-> A1]

(***************************************************************************)
(* create_session                                                          *)
(***************************************************************************)
\* (variant: the refresh token is stored as drawn)
session_row_raw_refresh(user_id, host, t, n) ==
    [user_id            |-> user_id,
     device_id          |-> None,
     platform           |-> "wechat",
     access_token_hash  |-> hash_token(token_urlsafe_32(n)),
     refresh_token_hash |-> token_urlsafe_48(n),
     refresh_expires_at |-> t + REFRESH_TOKEN_EXPIRES_DAYS,
     last_active_at     |-> t,
     last_ip            |-> host,
     meta               |-> json_dumps_meta(timestamp_ms(t + ACCESS_TOKEN_EXPIRES_DAYS)),
     revoked_at         |-> None]

\* the row create_session inserts for its n-th pair of secrets
session_row(user_id, host, t, n) ==
    LET access_token  == token_urlsafe_32(n)
        refresh_token == token_urlsafe_48(n)
    IN  [user_id            |-> user_id,
         device_id          |-> None,
         platform           |-> "wechat",
         access_token_hash  |-> hash_token(access_token),
         refresh_token_hash |-> hash_token(refresh_token),
         refresh_expires_at |-> t + REFRESH_TOKEN_EXPIRES_DAYS,
         last_active_at     |-> t,
         last_ip            |-> host,
         meta               |-> json_dumps_meta(timestamp_ms(t + ACCESS_TOKEN_EXPIRES_DAYS)),
         revoked_at         |-> None]

\* the dict create_session returns
session_data(t, n) ==
    [access_token      |-> token_urlsafe_32(n),
     access_expires_at |-> timestamp_ms(t + ACCESS_TOKEN_EXPIRES_DAYS)]

create_session(S, user_id, host, t) ==
    LET n == Len(S) + 1
    IN  [user_sessions |-> Append(S, session_row(user_id, host, t, n)),
         result        |-> session_data(t, n)]

(***************************************************************************)
(* get_user_id_from_token                                                  *)
(***************************************************************************)
\* (variant: the lookup also matches the refresh-token column)
select_session_any_hash(S, token_hash) ==
    { i \in 1..Len(S) : S[i].access_token_hash = token_hash
                           \/ S[i].refresh_token_hash = token_hash }

\* SELECT ... FROM user_sessions WHERE access_token_hash = %s
select_session(S, token_hash) == { i \in 1..Len(S) : S[i].access_token_hash = token_hash }

\* (variant: the token is rejected from the expiry instant on)
meta_rejects_at_expiry(meta, t) ==
    IF meta = "" THEN FALSE
    ELSE LET meta_json == json_loads_meta(meta)
         IN  IF ~meta_json.ok THEN TRUE
             ELSE /\ TruthyInt(meta_json.access_expires_at)
                  /\ Get(meta_json.access_expires_at) <= timestamp_ms(t)

\* the access-expiry check on the meta column: TRUE when the lookup returns None
meta_rejects(meta, t) ==
    IF meta = "" THEN FALSE
    ELSE LET meta_json == json_loads_meta(meta)
         IN  IF ~meta_json.ok THEN TRUE
             ELSE /\ TruthyInt(meta_json.access_expires_at)
                  /\ Get(meta_json.access_expires_at) < timestamp_ms(t)

get_user_id_from_token(S, token, t) ==
    IF token = "" THEN None
    ELSE LET rows == select_session(S, hash_token(token))
         IN  IF rows = {} THEN None
             ELSE LET row == S[CHOOSE i \in rows : \A j \in rows : i <= j]
                  IN  IF ~IsNone(row.revoked_at) THEN None
                      ELSE IF meta_rejects(row.meta, t) THEN None
                      ELSE Some(row.user_id)

(***************************************************************************)
(* /auth/profile                                                           *)
(***************************************************************************)
\* HTTPException(status_code=401, detail=U+7F3A U+5C11 U+6388 U+6743 U+4FE1 U+606F)
MissingAuthorization == [status |-> 401, detail |-> "missing authorization"]
\* HTTPException(status_code=401, detail=U+6388 U+6743 U+5DF2 U+5931 U+6548)
AuthorizationInvalid == [status |-> 401, detail |-> "authorization no longer valid"]
ProfileOk            == [status |-> 200, detail |-> "ok"]

\* an Authorization header: absent, or a scheme prefix followed by credentials
PresentedTokens ==
    {"", "forged"}
        \cup { token_urlsafe_32(n) : n \in 1..MaxSessions }
        \cup { token_urlsafe_48(1), hash_token(token_urlsafe_32(1)) }
AuthHeaders ==
    {None, Some([scheme |-> "Basic ", credentials |-> "forged"])}
        \cup { Some([scheme |-> "Bearer ", credentials |-> tok]) : tok \in PresentedTokens }

\* (variant: a token whose session exists but is rejected gets its own detail)
update_profile_telling(U, S, auth_header, payload, t) ==
    IF IsNone(auth_header) \/ Get(auth_header).scheme # "Bearer "
    THEN [response |-> MissingAuthorization, users |-> U]
    ELSE LET token   == Get(auth_header).credentials
             user_id == get_user_id_from_token(S, token, t)
         IN  IF ~TruthyInt(user_id)
             THEN [response |->
                       IF select_session(S, hash_token(token)) = {}
                       THEN AuthorizationInvalid
                       ELSE [status |-> 401, detail |-> "session expired or revoked"],
                   users |-> U]
             ELSE [response |-> ProfileOk,
                   users    |-> update_user_profile(U, Get(user_id), payload.nickName,
                                    payload.avatarUrl,
                                    IF TruthyStr(payload.nickName) \/ TruthyStr(payload.avatarUrl)
                                    THEN Some(json_dumps_payload(payload))
                                    ELSE None)]

\* update_profile on store (U, S) at time t: the response and the users table after it
update_profile(U, S, auth_header, payload, t) ==
    IF IsNone(auth_header) \/ Get(auth_header).scheme # "Bearer "
    THEN [response |-> MissingAuthorization, users |-> U]
    ELSE LET token   == Get(auth_header).credentials
             user_id == get_user_id_from_token(S, token, t)
         IN  IF ~TruthyInt(user_id)
             THEN [response |-> AuthorizationInvalid, users |-> U]
             ELSE LET profile_json ==
                          IF TruthyStr(payload.nickName) \/ TruthyStr(payload.avatarUrl)
                          THEN Some(json_dumps_payload(payload))
                          ELSE None
                  IN  [response |-> ProfileOk,
                       users    |-> update_user_profile(U, Get(user_id), payload.nickName,
                                                        payload.avatarUrl, profile_json)]

(***************************************************************************)
(* Text of chat messages: a sequence of characters.  The characters of the *)
(* keywords are named by their pinyin:                                     *)
(*   tui jian4 = U+63A8 U+8350     jian yi = U+5EFA U+8BAE                 *)
(*   yu suan = U+9884 U+7B97       jia ge = U+4EF7 U+683C                  *)
(*   nan peng you = U+7537 U+670B U+53CB   nv peng you = U+5973 U+670B U+53CB *)
(*   sheng ri = U+751F U+65E5      ji nian ri = U+7EAA U+5FF5 U+65E5       *)
(***************************************************************************)
KwRecommend   == <<"tui", "jian4">>
KwSuggest     == <<"jian", "yi">>
KwBudget      == <<"yu", "suan">>
KwPrice       == <<"jia", "ge">>
KwBoyfriend   == <<"nan", "peng", "you">>
KwGirlfriend  == <<"nv", "peng", "you">>
KwBirthday    == <<"sheng", "ri">>
KwAnniversary == <<"ji", "nian", "ri">>

\* Python's "needle in text" on strings
Contains(text, needle) ==
    \E i \in 1..(Len(text) - Len(needle) + 1) :
        SubSeq(text, i, i + Len(needle) - 1) = needle

\* the fixed suggestion lists, in the order of the branches of generate_suggestions
SuggestRecommend == <<"see the products", "the budget can change", "any other choice">>
SuggestBudget    == <<"this price is fine", "can it be cheaper", "show me recommendations">>
SuggestPartner   == <<"tell you more likes", "see the recommendations", "budget about 500">>
SuggestOccasion  == <<"want a surprise", "practical first", "see recommendations">>
SuggestDefault   == <<"show me recommendations", "anything else", "these are fine">>

\* (variant: the partner group is tested before the budget group)
generate_suggestions_partner_first(user_message, ai_response) ==
    IF Contains(user_message, KwRecommend) \/ Contains(user_message, KwSuggest)
    THEN SuggestRecommend
    ELSE IF Contains(user_message, KwBoyfriend) \/ Contains(user_message, KwGirlfriend)
    THEN SuggestPartner
    ELSE IF Contains(user_message, KwBudget) \/ Contains(user_message, KwPrice)
    THEN SuggestBudget
    ELSE IF Contains(user_message, KwBirthday) \/ Contains(user_message, KwAnniversary)
    THEN SuggestOccasion
    ELSE SuggestDefault

generate_suggestions(user_message, ai_response) ==
    IF Contains(user_message, KwRecommend) \/ Contains(user_message, KwSuggest)
    THEN SuggestRecommend
    ELSE IF Contains(user_message, KwBudget) \/ Contains(user_message, KwPrice)
    THEN SuggestBudget
    ELSE IF Contains(user_message, KwBoyfriend) \/ Contains(user_message, KwGirlfriend)
    THEN SuggestPartner
    ELSE IF Contains(user_message, KwBirthday) \/ Contains(user_message, KwAnniversary)
    THEN SuggestOccasion
    ELSE SuggestDefault

\* user messages: up to MaxParts parts, each a keyword or a single character
Keywords == {KwRecommend, KwSuggest, KwBudget, KwPrice, KwBoyfriend, KwGirlfriend,
             KwBirthday, KwAnniversary}
Characters == UNION { { k[i] : i \in 1..Len(k) } : k \in Keywords } \cup {"x"}
MessageParts == Keywords \cup { <<c>> : c \in Characters }
RECURSIVE MessagesOf(_)
MessagesOf(n) ==
    IF n = 0 THEN {<<>>}
    ELSE LET shorter == MessagesOf(n - 1)
         IN  shorter \cup { m \o p : m \in shorter, p \in MessageParts }
UserMessages == MessagesOf(MaxParts)
\* replies of the model, as text
AiResponses == {"", "yu suan 500", "tui jian4"}

InitSuggestIdle ==
    /\ sg_message = <<>>
    /\ sg_ai = None
    /\ sg_out = <<>>

InitSuggest ==
    /\ sg_message \in UserMessages
    /\ sg_ai = None
    /\ sg_out = <<>>

\* one call of generate_suggestions
Suggest ==
    /\ \E ai_response \in AiResponses :
          /\ sg_ai' = Some(ai_response)
          /\ sg_out' = generate_suggestions(sg_message, ai_response)
    /\ UNCHANGED sg_message

(***************************************************************************)
(* Chat relay: prompt assembly                                             *)
(***************************************************************************)
SYSTEM_PROMPT  == <<"SYSTEM_PROMPT">>
\* request.history[-20:]
HISTORY_WINDOW == 20

\* Python's seq[-n:]
LastN(seq, n) == IF Len(seq) <= n THEN seq ELSE SubSeq(seq, Len(seq) - n + 1, Len(seq))
\* Python's seq[:n]
FirstN(seq, n) == IF Len(seq) <= n THEN seq ELSE SubSeq(seq, 1, n)

\* Python truthiness of an Optional[List]
TruthyList(o) == ~IsNone(o) /\ Get(o) # <<>>

\* the for-loop appending {"role": msg.role, "content": msg.content}
turns_as_messages(turns) ==
    [ i \in 1..Len(turns) |-> [role |-> turns[i].role, content |-> turns[i].content] ]

\* (variant: the slice keeps the oldest turns)
chat_messages_oldest_turns(request) ==
    <<[role |-> "system", content |-> SYSTEM_PROMPT]>>
        \o (IF TruthyList(request.history)
            THEN turns_as_messages(FirstN(Get(request.history), HISTORY_WINDOW))
            ELSE <<>>)
        \o <<[role |-> "user", content |-> request.message]>>

\* chat: the list messages
chat_messages(request) ==
    LET system  == <<[role |-> "system", content |-> SYSTEM_PROMPT]>>
        history == IF TruthyList(request.history)
                   THEN turns_as_messages(LastN(Get(request.history), HISTORY_WINDOW))
                   ELSE <<>>
    IN  Append(system \o history, [role |-> "user", content |-> request.message])

\* chat_stream.generate: the list messages
stream_messages(request) ==
    LET system  == <<[role |-> "system", content |-> SYSTEM_PROMPT]>>
        history == IF TruthyList(request.history)
                   THEN turns_as_messages(LastN(Get(request.history), HISTORY_WINDOW))
                   ELSE <<>>
    IN  Append(system \o history, [role |-> "user", content |-> request.message])

(***************************************************************************)
(* Chat relay: the SSE events of chat_stream.generate                      *)
(***************************************************************************)
content_event(content, full_text) ==
    [type |-> "content", content |-> content, full_text |-> full_text]
done_event(full_text, suggestions) ==
    [type |-> "done", full_text |-> full_text, suggestions |-> suggestions]
\* message: U+0041 U+0049 U+670D U+52A1 U+5F02 U+5E38 followed by str(e)
error_event == [type |-> "error", message |-> "AI service error: upstream failure"]

\* (variant: the event carries the text accumulated before this fragment)
relay_chunk_stale_text(full, chunk) ==
    IF TruthyStr(chunk)
    THEN [full_response |-> full \o Get(chunk),
          yielded       |-> <<content_event(Get(chunk), full)>>]
    ELSE [full_response |-> full, yielded |-> <<>>]

\* the body of "for chunk in stream", chunk standing for chunk.choices[0].delta.content
relay_chunk(full, chunk) ==
    IF TruthyStr(chunk)
    THEN [full_response |-> full \o Get(chunk),
          yielded       |-> <<content_event(Get(chunk), full \o Get(chunk))>>]
    ELSE [full_response |-> full, yielded |-> <<>>]

\* (variant: the exception leaves the generator)
on_exception_propagating(evts) == [events |-> evts, stream_pc |-> "raised"]

\* except Exception as e: yield the error event; the generator then returns
on_exception(evts) == [events |-> Append(evts, error_event), stream_pc |-> "ended"]

(***************************************************************************)
(* Chat relay: requests and the completion API                             *)
(***************************************************************************)
\* a history of n turns, turn i carrying its own text
HistoryOf(n, first_role) ==
    [ i \in 1..n |->
        [role    |-> IF (i % 2 = 1) = (first_role = "user") THEN "user" ELSE "assistant",
         content |-> <<"turn", ToString(i)>>] ]
ChatMessages == {<<"x">>, KwBudget \o KwRecommend}
\* requests with histories around the window
PromptRequests ==
    { [message |-> m, history |-> h] :
        m \in ChatMessages,
        h \in {None} \cup { Some(HistoryOf(n, r)) : n \in 0..MaxHistory,
                                                    r \in {"user", "assistant"} } }
\* requests with short histories
StreamRequests ==
    { [message |-> m, history |-> h] :
        m \in ChatMessages, h \in {None, Some(HistoryOf(1, "user"))} }

\* chunk.choices[0].delta.content of one chunk
ChunkContents == {None, Some(""), Some("a"), Some("b")}
RECURSIVE ChunkSeqs(_)
ChunkSeqs(n) ==
    IF n = 0 THEN {<<>>}
    ELSE LET shorter == ChunkSeqs(n - 1)
         IN  shorter \cup { Append(c, x) : c \in shorter, x \in ChunkContents }
\* the completion API: create() raises, or (buffered) returns completion, or
\* (streaming) delivers chunks and then ends or raises
Upstream(create_raises, completion, chunks, stream_raises) ==
    [create_raises |-> create_raises, completion |-> completion,
     chunks |-> chunks, stream_raises |-> stream_raises]
StreamUpstreams ==
    {Upstream(TRUE, "", <<>>, FALSE)}
        \cup { Upstream(FALSE, "reply", c, r) : c \in ChunkSeqs(MaxChunks), r \in BOOLEAN }
PromptUpstreams ==
    {Upstream(TRUE, "", <<>>, FALSE),
     Upstream(FALSE, "reply", <<Some("a")>>, FALSE),
     Upstream(FALSE, "reply", <<Some("a")>>, TRUE)}

InitChatRun ==
    /\ chat_prompt = None
    /\ chat_response = None
    /\ stream_prompt = None
    /\ stream_pc = "start"
    /\ chunk_pos = 0
    /\ full_response = ""
    /\ events = <<>>

InitChatIdle ==
    /\ chat_request = [message |-> <<>>, history |-> None]
    /\ upstream = Upstream(FALSE, "", <<>>, FALSE)
    /\ InitChatRun

\* POST /chat
Chat ==
    /\ IsNone(chat_response)
    /\ chat_prompt' = Some(chat_messages(chat_request))
    /\ chat_response' =
          IF upstream.create_raises
          THEN Some([status |-> 500, response |-> "", suggestions |-> <<>>])
          ELSE Some([status |-> 200, response |-> upstream.completion,
                     suggestions |-> generate_suggestions(chat_request.message,
                                                          upstream.completion)])
    /\ UNCHANGED <<chat_request, upstream, stream_prompt, stream_pc, chunk_pos,
                   full_response, events>>

\* POST /chat/stream: generate() up to the call of the completion API
StreamBegin ==
    /\ stream_pc = "start"
    /\ stream_prompt' = Some(stream_messages(chat_request))
    /\ IF upstream.create_raises
       THEN /\ events' = on_exception(events).events
            /\ stream_pc' = on_exception(events).stream_pc
       ELSE /\ stream_pc' = "streaming"
            /\ UNCHANGED events
    /\ UNCHANGED <<chat_request, upstream, chat_prompt, chat_response, chunk_pos,
                   full_response>>

\* one iteration of "for chunk in stream"
RelayChunk ==
    /\ stream_pc = "streaming"
    /\ chunk_pos < Len(upstream.chunks)
    /\ LET r == relay_chunk(full_response, upstream.chunks[chunk_pos + 1])
       IN  /\ full_response' = r.full_response
           /\ events' = events \o r.yielded
    /\ chunk_pos' = chunk_pos + 1
    /\ UNCHANGED <<chat_request, upstream, chat_prompt, chat_response, stream_prompt,
                   stream_pc>>

\* the upstream stream raises instead of delivering the next chunk
StreamRaise ==
    /\ stream_pc = "streaming"
    /\ chunk_pos = Len(upstream.chunks)
    /\ upstream.stream_raises
    /\ events' = on_exception(events).events
    /\ stream_pc' = on_exception(events).stream_pc
    /\ UNCHANGED <<chat_request, upstream, chat_prompt, chat_response, stream_prompt,
                   chunk_pos, full_response>>

\* the upstream stream is exhausted: the done event
StreamDone ==
    /\ stream_pc = "streaming"
    /\ chunk_pos = Len(upstream.chunks)
    /\ ~upstream.stream_raises
    /\ events' = Append(events,
                        done_event(full_response,
                                   generate_suggestions(chat_request.message, full_response)))
    /\ stream_pc' = "ended"
    /\ UNCHANGED <<chat_request, upstream, chat_prompt, chat_response, stream_prompt,
                   chunk_pos, full_response>>

NextChat ==
    \/ Chat /\ UNCHANGED <<authVars, loginVars, sugVars, prodVars, detailVars, connVars, profVars>>
    \/ StreamBegin /\ UNCHANGED <<authVars, loginVars, sugVars, prodVars, detailVars, connVars, profVars>>
    \/ RelayChunk /\ UNCHANGED <<authVars, loginVars, sugVars, prodVars, detailVars, connVars, profVars>>
    \/ StreamRaise /\ UNCHANGED <<authVars, loginVars, sugVars, prodVars, detailVars, connVars, profVars>>
    \/ StreamDone /\ UNCHANGED <<authVars, loginVars, sugVars, prodVars, detailVars, connVars, profVars>>

(***************************************************************************)
(* Catalog: GET /products                                                  *)
(***************************************************************************)
\* a products row; spu_name, main_image_url and description are carried to the
\* items unchanged and take no part in the query
ProductRows(id) ==
    { [product_id |-> id, status |-> st, category_id |-> c, brand_id |-> b,
       created_at |-> t] :
        st \in {0, 1}, c \in {1, 2}, b \in {1, 2}, t \in {1, 2} }
RECURSIVE ProductTables(_)
ProductTables(n) ==
    IF n = 0 THEN {<<>>}
    ELSE LET shorter == ProductTables(n - 1)
         IN  shorter \cup UNION { { Append(tb, r) : r \in ProductRows(Len(tb) + 1) } :
                                     tb \in { x \in shorter : Len(x) = n - 1 } }
CategoryFilters == {None, Some(0), Some(1), Some(2)}
BrandFilters    == {None, Some(1)}

\* WHERE status = 1 [AND category_id = %s] [AND brand_id = %s]
where_products(tb, category_id, brand_id) ==
    { i \in 1..Len(tb) :
        /\ tb[i].status = 1
        /\ TruthyInt(category_id) => tb[i].category_id = Get(category_id)
        /\ TruthyInt(brand_id) => tb[i].brand_id = Get(brand_id) }

\* ORDER BY created_at DESC: every order of the rows the store may produce
\* (rows of equal created_at come in any order)
RECURSIVE OrdersOf(_, _)
OrdersOf(tb, ids) ==
    IF ids = {} THEN {<<>>}
    ELSE UNION { { <<i>> \o rest : rest \in OrdersOf(tb, ids \ {i}) } :
                    i \in { j \in ids : \A k \in ids : tb[j].created_at >= tb[k].created_at } }

\* SELECT product_id as id, ..., brand_id, category_id
product_item(row) ==
    [id |-> row.product_id, brand_id |-> row.brand_id, category_id |-> row.category_id]

\* LIMIT %s OFFSET %s on an ordered result
limit_offset(order, limit, offset) ==
    IF offset >= Len(order) THEN <<>>
    ELSE SubSeq(order, offset + 1, Min(offset + limit, Len(order)))

\* get_products, given the order the store returns the matching rows in
get_products(tb, page, limit, category_id, brand_id, order) ==
    LET total  == Cardinality(where_products(tb, category_id, brand_id))
        offset == (page - 1) * limit
        rows   == limit_offset(order, limit, offset)
    IN  [success |-> TRUE,
         items   |-> [ i \in 1..Len(rows) |-> product_item(tb[rows[i]]) ],
         total   |-> total,
         page    |-> page,
         limit   |-> limit,
         pages   |-> (total + limit - 1) \div limit]

NoProductRequest  == [page |-> 0, limit |-> 0, category_id |-> None, brand_id |-> None]
NoProductResponse == [success |-> FALSE, items |-> <<>>, total |-> 0, page |-> 0,
                      limit |-> 0, pages |-> 0]

InitCatalogIdle ==
    /\ products = <<>>
    /\ prod_request = NoProductRequest
    /\ prod_response = NoProductResponse

InitCatalog ==
    /\ products \in ProductTables(MaxProducts)
    /\ prod_request = NoProductRequest
    /\ prod_response = NoProductResponse

\* GET /products
GetProducts ==
    /\ \E page \in 1..MaxPage, limit \in 1..MaxLimit,
          category_id \in CategoryFilters, brand_id \in BrandFilters :
          /\ prod_request' = [page |-> page, limit |-> limit,
                              category_id |-> category_id, brand_id |-> brand_id]
          /\ \E order \in OrdersOf(products, where_products(products, category_id, brand_id)) :
                prod_response' = get_products(products, page, limit, category_id,
                                              brand_id, order)
    /\ UNCHANGED products

(***************************************************************************)
(* Catalog: GET /products/{product_id}                                     *)
(***************************************************************************)
\* the products table of the detail specification: the detail query reads
\* product_id only, and serves a product whatever its status is
DetailProductRow(id) ==
    [product_id |-> id, status |-> id % 2, category_id |-> 1, brand_id |-> 1,
     created_at |-> 1]
DetailProductTables == { [ i \in 1..n |-> DetailProductRow(i) ] : n \in 0..MaxProducts }

\* a product_affiliate_links row; original_url and affiliate_short_url are
\* carried to the response unchanged and take no part in the query
ConversionStatuses == {"success", "pending"}
AffiliateLinkRows(id) ==
    { [link_id |-> id, product_id |-> p, platform |-> "platform" \o ToString(id),
       affiliate_long_url |-> url, conversion_status |-> cs, created_at |-> t] :
        p \in 1..MaxProducts, cs \in ConversionStatuses, t \in {1, 2},
        url \in {None, Some("https://buy/" \o ToString(id))} }
RECURSIVE AffiliateLinkTables(_)
AffiliateLinkTables(n) ==
    IF n = 0 THEN {<<>>}
    ELSE LET shorter == AffiliateLinkTables(n - 1)
         IN  shorter \cup UNION { { Append(tb, r) : r \in AffiliateLinkRows(Len(tb) + 1) } :
                                     tb \in { x \in shorter : Len(x) = n - 1 } }

\* SELECT ... FROM products p LEFT JOIN brands b ... WHERE p.product_id = %s
select_product(tb, product_id) == { i \in 1..Len(tb) : tb[i].product_id = product_id }

\* (variant: the links of the product whatever their conversion status)
where_links_any_status(links, product_id) ==
    { i \in 1..Len(links) : links[i].product_id = product_id }

\* WHERE product_id = %s AND conversion_status = 'success'
where_links(links, product_id) ==
    { i \in 1..Len(links) :
        /\ links[i].product_id = product_id
        /\ links[i].conversion_status = "success" }

\* SELECT link_id, platform, ..., affiliate_long_url, ..., conversion_status
link_item(row) ==
    [link_id |-> row.link_id, platform |-> row.platform,
     affiliate_long_url |-> row.affiliate_long_url,
     conversion_status |-> row.conversion_status]

\* HTTPException(status_code=404, detail=U+5546 U+54C1 U+4E0D U+5B58 U+5728)
ProductNotFound == [status |-> 404, detail |-> "product does not exist"]

\* get_product_detail, given the order the store returns the links in
get_product_detail(tb, links, product_id, order) ==
    LET found == select_product(tb, product_id)
    IN  IF found = {} THEN ProductNotFound
        ELSE LET product == tb[CHOOSE i \in found : TRUE]
                 items   == [ k \in 1..Len(order) |-> link_item(links[order[k]]) ]
             IN  [status |-> 200,
                  detail |-> "ok",
                  data   |-> [id              |-> product.product_id,
                              brand_id        |-> product.brand_id,
                              category_id     |-> product.category_id,
                              status          |-> product.status,
                              affiliate_links |-> items,
                              buy_url         |-> IF Len(items) > 0
                                                  THEN items[1].affiliate_long_url
                                                  ELSE None,
                              buy_platform    |-> IF Len(items) > 0
                                                  THEN Some(items[1].platform)
                                                  ELSE None]]

NoDetailResponse == [status |-> 0, detail |-> "none"]

InitDetailIdle ==
    /\ affiliate_links = <<>>
    /\ detail_request = None
    /\ detail_response = NoDetailResponse

InitDetail ==
    /\ affiliate_links \in AffiliateLinkTables(MaxLinks)
    /\ detail_request = None
    /\ detail_response = NoDetailResponse

\* GET /products/{product_id}
GetProductDetail ==
    /\ \E product_id \in 0..(MaxProducts + 1) :
          /\ detail_request' = Some(product_id)
          /\ \E order \in OrdersOf(affiliate_links, where_links(affiliate_links, product_id)) :
                detail_response' = get_product_detail(products, affiliate_links,
                                                      product_id, order)
    /\ UNCHANGED <<affiliate_links, products, prod_request, prod_response>>


\* no handler is being traced for its connections
InitConnIdle ==
    /\ call = <<>>
    /\ db_connections = 0

\* no profile write is being recorded
NoWrite == [op |-> "none"]
InitProfileIdle == last_write = NoWrite

(***************************************************************************)
(* Token lifecycle: logins served one at a time, profile updates, the      *)
(* clock, and revocation of a session by the operator of the store.        *)
(***************************************************************************)
InitLogin ==
    /\ unique_auth_key = FALSE
    /\ pc = <<>>
    /\ req = <<>>
    /\ user_id_of = <<>>
    /\ row_of = <<>>

InitStore ==
    /\ users = <<>>
    /\ user_auths = <<>>
    /\ user_sessions = <<>>
    /\ now = 0
    /\ response = [status |-> 0, detail |-> "none"]
    /\ returned = {}

InitAuth ==
    /\ InitStore /\ InitLogin /\ InitChatIdle /\ InitSuggestIdle /\ InitCatalogIdle
    /\ InitDetailIdle /\ InitConnIdle /\ InitProfileIdle

\* the WechatLoginResponse of a successful login
login_response(session, user_id, profile) ==
    [status |-> 200, detail |-> "login", token |-> session.access_token,
     userId |-> user_id, expiredAt |-> session.access_expires_at, profile |-> profile]

\* POST /auth/wechat/login on given inputs, served without interruption
WechatLoginOn(data, profile, host) ==
    IF data.errcode # 0
    THEN /\ response' = [status |-> 400, detail |-> "code2Session failed"]
         /\ UNCHANGED <<users, user_auths, user_sessions, now, returned>>
    ELSE IF IsNone(data.openid)
    THEN /\ response' = [status |-> 400, detail |-> "no openid"]
         /\ UNCHANGED <<users, user_auths, user_sessions, now, returned>>
    ELSE /\ Len(user_sessions) < MaxSessions
         /\ \E row \in fetchone(select_user_auth(users, user_auths, Get(data.openid))) :
              LET g == get_or_create_user(users, user_auths, Get(data.openid),
                                          profile, host, now, row)
                  c == create_session(user_sessions, g.user_id, host, now)
              IN  /\ users' = g.users
                  /\ user_auths' = g.user_auths
                  /\ user_sessions' = c.user_sessions
                  /\ returned' = returned \cup
                         {[access_token |-> c.result.access_token,
                           access_expires_at |-> c.result.access_expires_at,
                           user_id |-> g.user_id,
                           session |-> Len(c.user_sessions)]}
                  /\ response' = login_response(c.result, g.user_id, profile)
                  /\ UNCHANGED now

WechatLogin ==
    \E data \in Code2SessionResults, profile \in AuthLoginProfiles, host \in ClientHosts :
        WechatLoginOn(data, profile, host)

\* POST /auth/profile on given inputs
UpdateProfileOn(auth_header, payload) ==
    LET r == update_profile(users, user_sessions, auth_header, payload, now)
    IN  /\ users' = r.users
        /\ response' = r.response
        /\ UNCHANGED <<user_auths, user_sessions, now, returned>>

UpdateProfile ==
    \E auth_header \in AuthHeaders, payload \in ProfilePayloads :
        UpdateProfileOn(auth_header, payload)

\* time passes
Tick ==
    /\ now < MaxTime
    /\ now' = now + 1
    /\ UNCHANGED <<users, user_auths, user_sessions, response, returned>>

\* the store's operator revokes a session: UPDATE user_sessions SET revoked_at = NOW()
RevokeSession ==
    \E i \in 1..Len(user_sessions) :
        /\ IsNone(user_sessions[i].revoked_at)
        /\ user_sessions' = [user_sessions EXCEPT ![i].revoked_at = Some(now)]
        /\ UNCHANGED <<users, user_auths, now, response, returned>>

NextAuth ==
    \/ WechatLogin /\ UNCHANGED <<loginVars, chatVars, sugVars, prodVars, detailVars, connVars, profVars>>
    \/ UpdateProfile /\ UNCHANGED <<loginVars, chatVars, sugVars, prodVars, detailVars, connVars, profVars>>
    \/ Tick /\ UNCHANGED <<loginVars, chatVars, sugVars, prodVars, detailVars, connVars, profVars>>
    \/ RevokeSession /\ UNCHANGED <<loginVars, chatVars, sugVars, prodVars, detailVars, connVars, profVars>>

SpecAuth == InitAuth /\ [][NextAuth]_vars

(***************************************************************************)
(* Properties of the token lifecycle (SpecAuth).                           *)
(***************************************************************************)
Bearer(tok) == Some([scheme |-> "Bearer ", credentials |-> tok])
IssuedTokens == { r.access_token : r \in returned }
\* the session a create_session call inserted is revoked / past its expiry
Revoked(r) == ~IsNone(user_sessions[r.session].revoked_at)
Expired(r) == timestamp_ms(now) > r.access_expires_at

\* C1: the raw access token of every session created for user u resolves to u
\* exactly as long as the session is not revoked and the clock is not past the
\* access-expiry (still valid at the expiry instant itself); otherwise it
\* resolves to None.
C1_TokenValidIffNotRevokedNotExpired ==
    \A r \in returned :
        LET got == get_user_id_from_token(user_sessions, r.access_token, now)
        IN  /\ (got = Some(r.user_id)) <=> (~Revoked(r) /\ ~Expired(r))
            /\ (Revoked(r) \/ Expired(r)) => got = None

\* a session still valid at exactly its expiry instant, next to a revoked one
\* that has not expired and no longer resolves
C1_Witness ==
    /\ \E r \in returned :
          /\ timestamp_ms(now) = r.access_expires_at
          /\ get_user_id_from_token(user_sessions, r.access_token, now) = Some(r.user_id)
    /\ \E r \in returned :
          /\ Revoked(r) /\ ~Expired(r)
          /\ get_user_id_from_token(user_sessions, r.access_token, now) = None

\* C2: a token never returned by create_session (the empty string, a forged
\* string, a stored hash, an issued refresh token, a token not yet drawn)
\* resolves to None, and /auth/profile answers 401 for it.
C2_UnissuedTokenInvalid ==
    \A tok \in PresentedTokens \ IssuedTokens :
        /\ get_user_id_from_token(user_sessions, tok, now) = None
        /\ \A payload \in ProfilePayloads :
              update_profile(users, user_sessions, Bearer(tok), payload, now).response.status
                  = 401

\* after a login, a profile update and a revocation: the issued refresh token and
\* the stored hash of an issued access token are presented and rejected
C2_Witness ==
    /\ Len(user_sessions) = MaxSessions
    /\ \E i \in 1..Len(user_sessions) : ~IsNone(user_sessions[i].revoked_at)
    /\ \E i \in 1..Len(users) : users[i].username = Some("Bob")
    /\ token_urlsafe_32(1) \in IssuedTokens
    /\ get_user_id_from_token(user_sessions, token_urlsafe_48(1), now) = None
    /\ get_user_id_from_token(user_sessions, hash_token(token_urlsafe_32(1)), now) = None
    /\ response = AuthorizationInvalid

\* why /auth/profile rejects a presented bearer token
FailureReason(tok) ==
    IF tok \notin IssuedTokens THEN "not_found"
    ELSE LET r == CHOOSE x \in returned : x.access_token = tok
         IN  IF Revoked(r) THEN "revoked"
             ELSE IF Expired(r) THEN "expired"
             ELSE "none"

\* C8: whichever of the three reasons applies (no session row, revoked,
\* expired), /auth/profile answers with the same 401 status and the same detail
\* and leaves the users table as it was.
C8_AuthFailuresIndistinguishable ==
    \A tok \in PresentedTokens, payload \in ProfilePayloads :
        FailureReason(tok) # "none" =>
            update_profile(users, user_sessions, Bearer(tok), payload, now)
                = [response |-> AuthorizationInvalid, users |-> users]

\* the three reasons apply to three presented tokens at once, and a rejected
\* request has just been answered
C8_Witness ==
    /\ \E t1, t2, t3 \in PresentedTokens \ {""} :
          /\ FailureReason(t1) = "not_found"
          /\ FailureReason(t2) = "revoked"
          /\ FailureReason(t3) = "expired"
    /\ response = AuthorizationInvalid
    /\ \E i \in 1..Len(users) : users[i].username = Some("Bob")

\* the secrets create_session has drawn so far
RawAccessTokens  == { token_urlsafe_32(n) : n \in 1..Len(user_sessions) }
RawRefreshTokens == { token_urlsafe_48(n) : n \in 1..Len(user_sessions) }
\* the text columns of a user_sessions row (nullable ones as options)
TextColumns(row) ==
    {Some(row.platform), Some(row.access_token_hash), Some(row.refresh_token_hash),
     Some(row.meta), row.device_id, row.last_ip}

\* C9: no text column of any user_sessions row holds a raw access or refresh
\* token, the hash columns hold hash_token of the drawn secrets, the raw access
\* token is returned only by the create_session call that drew it, and no
\* return value or response carries a raw refresh token.
C9_RawTokensNeverStored ==
    /\ \A i \in 1..Len(user_sessions), raw \in RawAccessTokens \cup RawRefreshTokens :
          Some(raw) \notin TextColumns(user_sessions[i])
    /\ \A i \in 1..Len(user_sessions) :
          /\ user_sessions[i].access_token_hash = hash_token(token_urlsafe_32(i))
          /\ user_sessions[i].refresh_token_hash = hash_token(token_urlsafe_48(i))
    /\ \A r \in returned :
          /\ r.access_token = token_urlsafe_32(r.session)
          /\ r.access_token \notin RawRefreshTokens
    /\ response.status = 200 /\ response.detail = "login" =>
          /\ response.token \in IssuedTokens
          /\ response.token \notin RawRefreshTokens

\* two sessions stored and both access tokens handed out
C9_Witness ==
    /\ Len(user_sessions) = MaxSessions
    /\ Cardinality(IssuedTokens) = MaxSessions
    /\ response.status = 200 /\ response.detail = "login"
    /\ response.token = token_urlsafe_32(MaxSessions)

(***************************************************************************)
(* Concurrent logins.  get_or_create_user is a plain function on a         *)
(* connection with autocommit=True: inside one event loop it runs to its   *)
(* end, but worker processes sharing the database interleave statement by  *)
(* statement, and every statement is committed on its own.  The schema is  *)
(* not part of the source: unique_auth_key says whether it declares        *)
(* UNIQUE(provider, provider_user_id) on user_auths.                       *)
(***************************************************************************)
Workers == 1..MaxWorkers

InitConcurrent ==
    /\ InitStore /\ InitChatIdle /\ InitSuggestIdle /\ InitCatalogIdle
    /\ InitDetailIdle /\ InitConnIdle /\ InitProfileIdle
    /\ unique_auth_key \in BOOLEAN
    /\ pc = [w \in Workers |-> "idle"]
    /\ req = [w \in Workers |-> [openid |-> "", profile |-> NoProfile, host |-> None]]
    /\ user_id_of = [w \in Workers |-> 0]
    /\ row_of = [w \in Workers |-> None]

\* the request arrives and the SELECT on user_auths runs
SelectBinding(w) ==
    /\ pc[w] = "idle"
    /\ \E openid \in Openids, profile \in LoginProfiles, host \in ClientHosts :
          /\ req' = [req EXCEPT ![w] = [openid |-> openid, profile |-> profile, host |-> host]]
          /\ \E row \in fetchone(select_user_auth(users, user_auths, openid)) :
                /\ row_of' = [row_of EXCEPT ![w] = row]
                /\ user_id_of' = [user_id_of EXCEPT ![w] = IF IsNone(row) THEN 0 ELSE Get(row)]
    /\ pc' = [pc EXCEPT ![w] = "selected"]
    /\ UNCHANGED <<authVars, unique_auth_key>>

\* else-branch, first statement: INSERT INTO users; user_id = cursor.lastrowid
InsertUser(w) ==
    /\ pc[w] = "selected" /\ IsNone(row_of[w])
    /\ users' = insert_user(users, req[w].profile)
    /\ user_id_of' = [user_id_of EXCEPT ![w] = Len(users')]
    /\ pc' = [pc EXCEPT ![w] = "user_inserted"]
    /\ UNCHANGED <<user_auths, user_sessions, now, response, returned,
                   unique_auth_key, req, row_of>>

\* else-branch, second statement: INSERT INTO user_auths; a duplicate-key error
\* leaves get_or_create_user through finally, and the request fails
InsertUserAuth(w) ==
    /\ pc[w] = "user_inserted"
    /\ IF insert_auth_fails(user_auths, unique_auth_key, req[w].openid)
       THEN /\ pc' = [pc EXCEPT ![w] = "failed"]
            /\ response' = [status |-> 500, detail |-> "Internal Server Error"]
            /\ UNCHANGED user_auths
       ELSE /\ user_auths' = insert_user_auth(user_auths, user_id_of[w], req[w].openid)
            /\ pc' = [pc EXCEPT ![w] = "bound"]
            /\ UNCHANGED response
    /\ UNCHANGED <<users, user_sessions, now, returned, unique_auth_key, req,
                   user_id_of, row_of>>

\* if profile: UPDATE users SET ... COALESCE ...
UpdateLoginProfile(w) ==
    /\ pc[w] = "bound" \/ (pc[w] = "selected" /\ ~IsNone(row_of[w]))
    /\ users' = apply_login_profile(users, user_id_of[w], req[w].profile)
    /\ pc' = [pc EXCEPT ![w] = "profiled"]
    /\ UNCHANGED <<user_auths, user_sessions, now, response, returned,
                   unique_auth_key, req, user_id_of, row_of>>

\* UPDATE users SET last_login_at = NOW(), last_login_ip; return user_id
UpdateLastLogin(w) ==
    /\ pc[w] = "profiled"
    /\ users' = update_last_login(users, user_id_of[w], now, req[w].host)
    /\ pc' = [pc EXCEPT ![w] = "resolved"]
    /\ UNCHANGED <<user_auths, user_sessions, now, response, returned,
                   unique_auth_key, req, user_id_of, row_of>>

\* create_session and the WechatLoginResponse
IssueSession(w) ==
    /\ pc[w] = "resolved"
    /\ LET c == create_session(user_sessions, user_id_of[w], req[w].host, now)
       IN  /\ user_sessions' = c.user_sessions
           /\ returned' = returned \cup
                  {[access_token |-> c.result.access_token,
                    access_expires_at |-> c.result.access_expires_at,
                    user_id |-> user_id_of[w],
                    session |-> Len(c.user_sessions)]}
           /\ response' = login_response(c.result, user_id_of[w], req[w].profile)
    /\ pc' = [pc EXCEPT ![w] = "done"]
    /\ UNCHANGED <<users, user_auths, now, unique_auth_key, req, user_id_of, row_of>>

NextConcurrent ==
    \E w \in Workers :
        \/ SelectBinding(w) /\ UNCHANGED <<chatVars, sugVars, prodVars, detailVars, connVars, profVars>>
        \/ InsertUser(w) /\ UNCHANGED <<chatVars, sugVars, prodVars, detailVars, connVars, profVars>>
        \/ InsertUserAuth(w) /\ UNCHANGED <<chatVars, sugVars, prodVars, detailVars, connVars, profVars>>
        \/ UpdateLoginProfile(w) /\ UNCHANGED <<chatVars, sugVars, prodVars, detailVars, connVars, profVars>>
        \/ UpdateLastLogin(w) /\ UNCHANGED <<chatVars, sugVars, prodVars, detailVars, connVars, profVars>>
        \/ IssueSession(w) /\ UNCHANGED <<chatVars, sugVars, prodVars, detailVars, connVars, profVars>>

SpecLogin == InitConcurrent /\ [][NextConcurrent]_vars

\* the requests for an openid, by where they are
RequestsFor(o)  == { w \in Workers : pc[w] # "idle" /\ req[w].openid = o }
InFlightFor(o)  == { w \in RequestsFor(o) : pc[w] \notin {"done", "failed"} }
\* the User rows the requests for an openid inserted
UsersCreatedFor(o) ==
    { user_id_of[w] : w \in { x \in RequestsFor(o) :
          IsNone(row_of[x]) /\ pc[x] \notin {"selected"} } }
BindingsFor(o) ==
    { j \in 1..Len(user_auths) :
          user_auths[j].provider = "wechat" /\ user_auths[j].provider_user_id = o }

\* C3: once every login request carrying an openid has ended, under any
\* interleaving of their statements, all of them returned the same userId,
\* exactly one User row was created for the openid and exactly one
\* ("wechat", openid) binding exists.
C3_SameOpenidOneUser ==
    \A o \in Openids :
        (RequestsFor(o) # {} /\ InFlightFor(o) = {}) =>
            /\ \A w \in RequestsFor(o) : pc[w] = "done"
            /\ \A v, w \in RequestsFor(o) : user_id_of[v] = user_id_of[w]
            /\ Cardinality(UsersCreatedFor(o)) = 1
            /\ Cardinality(BindingsFor(o)) = 1

\* the User rows a request has inserted and not yet bound: the request stands
\* between its two INSERT statements
BeingCreated == { user_id_of[w] : w \in { x \in Workers : pc[x] = "user_inserted" } }
HasBinding(u) ==
    \E j \in 1..Len(user_auths) :
        user_auths[j].user_id = u /\ user_auths[j].provider = "wechat"

\* C12: the User row and its binding are created atomically: outside the
\* window between the two INSERT statements of a running request, and so in
\* particular after a request failed at the user_auths INSERT, every User row
\* created by login has a ("wechat", openid) binding.
C12_UserCreationAtomic ==
    \A u \in 1..Len(users) : u \notin BeingCreated => HasBinding(u)

(***************************************************************************)
(* The chat specifications: histories around the window (SpecPrompt),      *)
(* upstream streams of every shape (SpecStream), user messages of every    *)
(* shape (SpecSuggest).                                                    *)
(***************************************************************************)
InitPrompt ==
    /\ InitStore /\ InitLogin /\ InitSuggestIdle /\ InitCatalogIdle /\ InitChatRun
    /\ InitDetailIdle /\ InitConnIdle /\ InitProfileIdle
    /\ chat_request \in PromptRequests
    /\ upstream \in PromptUpstreams
SpecPrompt == InitPrompt /\ [][NextChat]_vars

InitStream ==
    /\ InitStore /\ InitLogin /\ InitSuggestIdle /\ InitCatalogIdle /\ InitChatRun
    /\ InitDetailIdle /\ InitConnIdle /\ InitProfileIdle
    /\ chat_request \in StreamRequests
    /\ upstream \in StreamUpstreams
SpecStream == InitStream /\ [][NextChat]_vars

InitSuggestions ==
    /\ InitStore /\ InitLogin /\ InitChatIdle /\ InitCatalogIdle /\ InitSuggest
    /\ InitDetailIdle /\ InitConnIdle /\ InitProfileIdle
NextSuggest ==
    Suggest /\ UNCHANGED <<authVars, loginVars, chatVars, prodVars, detailVars, connVars, profVars>>
SpecSuggest == InitSuggestions /\ [][NextSuggest]_vars

(***************************************************************************)
(* Properties of the chat relay.                                           *)
(***************************************************************************)
RECURSIVE ConcatText(_)
ConcatText(texts) ==
    IF texts = <<>> THEN "" ELSE texts[1] \o ConcatText(Tail(texts))

\* the content fields of the first k events
Fragments(k) == [ i \in 1..k |-> events[i].content ]
AllContent(k) == \A i \in 1..k : events[i].type = "content"
\* the non-empty fragments among the chunks consumed so far, in their order
RECURSIVE RelayedFragments(_)
RelayedFragments(chunks) ==
    IF chunks = <<>> THEN <<>>
    ELSE LET rest == RelayedFragments(Tail(chunks))
         IN  IF ~IsNone(Head(chunks)) /\ Get(Head(chunks)) # ""
             THEN <<Get(Head(chunks))>> \o rest ELSE rest
UpstreamFails == upstream.create_raises \/ upstream.stream_raises
StreamFinished == stream_pc \notin {"start", "streaming"}

\* C4: when the upstream stream ends without failure, generate() yields content
\* events only, one per non-empty fragment and in upstream order, the k-th
\* carrying the concatenation of the first k fragments, and then exactly one
\* done event, the last event, carrying the concatenation of all fragments.
C4_ContentThenDone ==
    ~UpstreamFails =>
        LET n == Len(events)
            c == IF stream_pc = "ended" THEN n - 1 ELSE n
        IN  /\ stream_pc = "ended" => n >= 1 /\ events[n].type = "done"
            /\ AllContent(c)
            /\ Fragments(c) = RelayedFragments(SubSeq(upstream.chunks, 1, chunk_pos))
            /\ \A k \in 1..c : events[k].full_text = ConcatText(Fragments(k))
            /\ stream_pc = "ended" => events[n].full_text = ConcatText(Fragments(c))
            /\ StreamFinished => stream_pc = "ended"

\* a finished stream of two content events and a done event, with a chunk of
\* no content skipped on the way
C4_Witness ==
    /\ ~UpstreamFails
    /\ stream_pc = "ended"
    /\ Len(events) = 3
    /\ Len(upstream.chunks) = 3
    /\ events[1].type = "content" /\ events[2].type = "content"
    /\ events[1].content # events[2].content
    /\ events[3].type = "done" /\ events[3].full_text = "ab"

\* C5: when the completion call raises, before the first chunk or after any
\* number of chunks, generate() ends normally with exactly one error event as
\* its last event, no done event, and only content events before it; and
\* whatever the upstream does, a stream has ended iff its last event is its
\* one terminal event, done or error.
C5_ErrorIsTerminal ==
    LET n == Len(events)
        terminal == { k \in 1..n : events[k].type \in {"done", "error"} }
    IN  /\ terminal \subseteq {n}
        /\ StreamFinished => stream_pc = "ended" /\ terminal = {n}
        /\ ~StreamFinished => terminal = {}
        /\ (UpstreamFails /\ StreamFinished) => events[n].type = "error"
        /\ (~UpstreamFails /\ StreamFinished) => events[n].type = "done"

\* the upstream raised after two fragments were relayed
C5_Witness ==
    /\ upstream.stream_raises
    /\ stream_pc = "ended"
    /\ Len(events) = 3
    /\ events[1].type = "content" /\ events[2].type = "content"
    /\ events[3] = error_event

HistoryLen(request) == IF IsNone(request.history) THEN 0 ELSE Len(Get(request.history))
\* what the claim says the prompt is
PromptIsWindow(prompt, request) ==
    LET n == HistoryLen(request)
        k == Min(n, 20)
    IN  /\ Len(prompt) = k + 2
        /\ prompt[1] = [role |-> "system", content |-> SYSTEM_PROMPT]
        /\ \A i \in 1..k : prompt[1 + i] = Get(request.history)[n - k + i]
        /\ prompt[k + 2] = [role |-> "user", content |-> request.message]

\* C6: the prompt /chat and /chat/stream pass upstream is the system
\* instruction, the last min(n, 20) history turns unchanged and in order, and
\* the new user message: min(n, 20) + 2 entries, the same for both endpoints.
C6_PromptAssembly ==
    /\ ~IsNone(chat_prompt) => PromptIsWindow(Get(chat_prompt), chat_request)
    /\ ~IsNone(stream_prompt) => PromptIsWindow(Get(stream_prompt), chat_request)
    /\ (~IsNone(chat_prompt) /\ ~IsNone(stream_prompt)) => chat_prompt = stream_prompt

\* a history of 21 turns: both endpoints sent 22 entries, the oldest turn dropped
C6_Witness ==
    /\ HistoryLen(chat_request) = 21
    /\ ~IsNone(chat_prompt) /\ ~IsNone(stream_prompt)
    /\ Len(Get(chat_prompt)) = 22
    /\ Get(stream_prompt)[2] = Get(chat_request.history)[2]

KeywordFree(message) == \A k \in Keywords : ~Contains(message, k)
Called == ~IsNone(sg_ai)

\* C7 as stated: every user message containing the budget keyword yields the
\* budget list, every message without keyword the default list, and the result
\* never depends on ai_response.
C7_BudgetKeywordGivesBudgetList ==
    Called =>
        /\ Contains(sg_message, KwBudget) => sg_out = SuggestBudget
        /\ KeywordFree(sg_message) => sg_out = SuggestDefault
        /\ \A ai \in AiResponses : generate_suggestions(sg_message, ai) = sg_out

\* C7, amended: a user message containing the budget keyword and neither
\* of the recommend and suggest keywords yields the budget list, whatever
\* ai_response is; a message without keyword yields the default list; the
\* result never depends on ai_response.
C7_BudgetKeywordWithoutRecommend ==
    Called =>
        /\ (/\ Contains(sg_message, KwBudget)
            /\ ~Contains(sg_message, KwRecommend)
            /\ ~Contains(sg_message, KwSuggest)) => sg_out = SuggestBudget
        /\ KeywordFree(sg_message) => sg_out = SuggestDefault
        /\ \A ai \in AiResponses : generate_suggestions(sg_message, ai) = sg_out

\* a budget message that also names a partner, answered while the reply talks
\* about recommendations
C7_Witness ==
    /\ sg_message = KwBudget \o KwBoyfriend
    /\ sg_ai = Some("tui jian4")
    /\ sg_out = SuggestBudget

(***************************************************************************)
(* The catalog specification and its property.                             *)
(***************************************************************************)
InitProducts ==
    /\ InitStore /\ InitLogin /\ InitChatIdle /\ InitSuggestIdle /\ InitCatalog
    /\ InitDetailIdle /\ InitConnIdle /\ InitProfileIdle
NextProducts ==
    GetProducts /\ UNCHANGED <<authVars, loginVars, chatVars, sugVars, detailVars, connVars, profVars>>
SpecProducts == InitProducts /\ [][NextProducts]_vars

\* the active rows satisfying the filters that were supplied
MatchingProducts(request) ==
    { i \in 1..Len(products) :
        /\ products[i].status = 1
        /\ ~IsNone(request.category_id) => products[i].category_id = Get(request.category_id)
        /\ ~IsNone(request.brand_id) => products[i].brand_id = Get(request.brand_id) }
\* the least k with k * limit >= total
CeilDiv(total, limit) == CHOOSE k \in 0..total : k * limit >= total /\ (k = 0 \/ (k - 1) * limit < total)
Served == prod_response.success

\* C10: for page >= 1 and limit >= 1, get_products returns at most limit items,
\* each an active product satisfying the supplied category and brand filters,
\* in descending order of creation time from offset (page-1)*limit on, total
\* counts the matching products, and pages = ceil(total / limit).
C10_ListProducts ==
    Served =>
        LET q        == prod_request
            r        == prod_response
            matching == MatchingProducts(q)
            offset   == (q.page - 1) * q.limit
        IN  /\ Len(r.items) <= q.limit
            /\ \A k \in 1..Len(r.items) : r.items[k].id \in matching
            /\ \E order \in OrdersOf(products, matching) :
                  /\ Len(r.items) = Len(limit_offset(order, q.limit, offset))
                  /\ \A k \in 1..Len(r.items) : r.items[k].id = order[offset + k]
            /\ r.total = Cardinality(matching)
            /\ r.pages = CeilDiv(r.total, q.limit)

\* the same with the filters the handler applies (a filter value of 0 is not applied)
C10_ListProductsTruthyFilters ==
    Served =>
        LET q        == prod_request
            r        == prod_response
            matching == where_products(products, q.category_id, q.brand_id)
            offset   == (q.page - 1) * q.limit
        IN  /\ Len(r.items) <= q.limit
            /\ \A k \in 1..Len(r.items) : r.items[k].id \in matching
            /\ \E order \in OrdersOf(products, matching) :
                  /\ Len(r.items) = Len(limit_offset(order, q.limit, offset))
                  /\ \A k \in 1..Len(r.items) : r.items[k].id = order[offset + k]
            /\ r.total = Cardinality(matching)
            /\ r.pages = CeilDiv(r.total, q.limit)

(***************************************************************************)
(* The product-detail specification and its property.                      *)
(***************************************************************************)
InitProductDetail ==
    /\ InitStore /\ InitLogin /\ InitChatIdle /\ InitSuggestIdle /\ InitConnIdle /\ InitProfileIdle
    /\ products \in DetailProductTables
    /\ prod_request = NoProductRequest
    /\ prod_response = NoProductResponse
    /\ InitDetail
NextProductDetail ==
    GetProductDetail /\ UNCHANGED <<authVars, loginVars, chatVars, sugVars, connVars, profVars>>
SpecDetail == InitProductDetail /\ [][NextProductDetail]_vars

DetailServed == ~IsNone(detail_request)
\* the stored links of a product whose conversion succeeded
SuccessLinks(product_id) ==
    { i \in 1..Len(affiliate_links) :
        /\ affiliate_links[i].product_id = product_id
        /\ affiliate_links[i].conversion_status = "success" }

\* C11: get_product_detail answers 404 when no product row has the id;
\* otherwise affiliate_links lists each success link of that product once and
\* nothing else, newest first, and buy_url / buy_platform are the long URL and
\* the platform of the first listed link, or both null when the list is empty.
C11_ProductDetail ==
    DetailServed =>
        LET id == Get(detail_request)
            r  == detail_response
        IN  IF \A i \in 1..Len(products) : products[i].product_id # id
            THEN r.status = 404
            ELSE LET listed == r.data.affiliate_links
                     n      == Len(listed)
                 IN  /\ r.status = 200
                     /\ r.data.id = id
                     /\ { listed[k].link_id : k \in 1..n } = SuccessLinks(id)
                     /\ n = Cardinality(SuccessLinks(id))
                     /\ \A k \in 1..n : listed[k].conversion_status = "success"
                     /\ \A k, l \in 1..n :
                           k < l => affiliate_links[listed[k].link_id].created_at
                                       >= affiliate_links[listed[l].link_id].created_at
                     /\ n = 0 => r.data.buy_url = None /\ r.data.buy_platform = None
                     /\ n > 0 =>
                           /\ r.data.buy_url
                                 = affiliate_links[listed[1].link_id].affiliate_long_url
                           /\ r.data.buy_platform
                                 = Some(affiliate_links[listed[1].link_id].platform)

\* a product with a pending link stored first and a success link: the detail
\* exposes the success link alone and takes the buy URL from it
C11_Witness ==
    /\ DetailServed
    /\ detail_response.status = 200
    /\ Len(affiliate_links) = 2
    /\ affiliate_links[1].product_id = Get(detail_request)
    /\ affiliate_links[1].conversion_status = "pending"
    /\ affiliate_links[2].product_id = Get(detail_request)
    /\ affiliate_links[2].conversion_status = "success"
    /\ Len(detail_response.data.affiliate_links) = 1
    /\ detail_response.data.buy_url = Some("https://buy/2")
    /\ detail_response.data.buy_platform = Some("platform2")

\* two success links of a product, the later row the newer: it is listed first
C11_WitnessNewestFirst ==
    /\ DetailServed
    /\ detail_response.status = 200
    /\ Len(detail_response.data.affiliate_links) = 2
    /\ detail_response.data.affiliate_links[1].link_id = 2
    /\ affiliate_links[2].created_at > affiliate_links[1].created_at

\* a request for an id no product row has, while links naming that id exist
C11_WitnessNotFound ==
    /\ DetailServed
    /\ detail_response = ProductNotFound
    /\ SuccessLinks(Get(detail_request)) # {}

(***************************************************************************)
(* Profile writes: logins carrying every shape of profile and profile      *)
(* updates carrying every shape of payload, each recorded with the users   *)
(* table it found.                                                         *)
(***************************************************************************)
\* WechatProfile objects: absent, empty, and with each field present or not
WriteLoginProfiles ==
    {NoProfile,
     Some(Profile(Some("Ann"), None, Some("zh_CN"))),
     Some(Profile(None, None, None))}
\* UpdateProfileRequest bodies: a field is null, empty or a text
WritePayloads ==
    {[nickName |-> None, avatarUrl |-> None],
     [nickName |-> Some(""), avatarUrl |-> None],
     [nickName |-> Some("Bob"), avatarUrl |-> None],
     [nickName |-> None, avatarUrl |-> Some("bob.png")]}
\* Authorization headers: absent, a forged token, the tokens that can be issued
WriteAuthHeaders ==
    {None, Bearer("forged")} \cup { Bearer(token_urlsafe_32(n)) : n \in 1..MaxSessions }

ProfileLogin ==
    \E data \in Code2SessionResults, profile \in WriteLoginProfiles, host \in ClientHosts :
        /\ WechatLoginOn(data, profile, host)
        /\ last_write' = [op |-> "login", errcode |-> data.errcode, openid |-> data.openid,
                          profile |-> profile, before |-> users]

ProfileUpdate ==
    \E auth_header \in WriteAuthHeaders, payload \in WritePayloads :
        /\ UpdateProfileOn(auth_header, payload)
        /\ last_write' = [op |-> "update", auth_header |-> auth_header,
                          payload |-> payload, before |-> users]

InitProfileWrites ==
    /\ InitStore /\ InitLogin /\ InitChatIdle /\ InitSuggestIdle /\ InitCatalogIdle
    /\ InitDetailIdle /\ InitConnIdle /\ InitProfileIdle
NextProfileWrites ==
    \/ ProfileLogin /\ UNCHANGED <<loginVars, chatVars, sugVars, prodVars, detailVars, connVars>>
    \/ ProfileUpdate /\ UNCHANGED <<loginVars, chatVars, sugVars, prodVars, detailVars, connVars>>
SpecProfile == InitProfileWrites /\ [][NextProfileWrites]_vars

\* the user the last request resolved to, None when the request was rejected:
\* the user bound to the login's openid, the user the bearer token was issued to
ResolvedUser ==
    IF last_write.op = "login"
    THEN IF last_write.errcode # 0 \/ IsNone(last_write.openid) THEN None
         ELSE Some(user_auths[CHOOSE j \in 1..Len(user_auths) :
                       user_auths[j].provider_user_id = Get(last_write.openid)].user_id)
    ELSE LET h == last_write.auth_header
         IN  IF IsNone(h) \/ Get(h).scheme # "Bearer "
                \/ Get(h).credentials \notin { r.access_token : r \in returned }
             THEN None
             ELSE Some((CHOOSE r \in returned :
                           r.access_token = Get(h).credentials).user_id)

\* the incoming value of each stored field, None when absent: the nickname,
\* the avatar, and for the blob the JSON text of the profile the request
\* carries: the profile object of a login (none when the login has no
\* profile), the body of /auth/profile (none when the body names no non-empty
\* nickName or avatarUrl)
Incoming ==
    IF last_write.op = "login"
    THEN IF IsNone(last_write.profile)
         THEN [username |-> None, avatar |-> None, profile |-> None]
         ELSE [username |-> Get(last_write.profile).nickName,
               avatar   |-> Get(last_write.profile).avatarUrl,
               profile  |-> Some(json_dumps_profile(Get(last_write.profile)))]
    ELSE LET b == last_write.payload
         IN  [username |-> b.nickName,
              avatar   |-> b.avatarUrl,
              profile  |-> IF b.nickName \in {None, Some("")} /\ b.avatarUrl \in {None, Some("")}
                           THEN None ELSE Some(json_dumps_payload(b))]

\* the same, the blob of /auth/profile counted as present as soon as the body
\* names a non-null field, the empty string included
IncomingNonNull ==
    IF last_write.op = "login" THEN Incoming
    ELSE LET b == last_write.payload
         IN  [Incoming EXCEPT !.profile =
                 IF b.nickName = None /\ b.avatarUrl = None
                 THEN None ELSE Some(json_dumps_payload(b))]

FirstNonNull(incoming, previous) == IF incoming # None THEN incoming ELSE previous

\* the last request changed no users row but the resolved user's (none when it
\* was rejected), and in that row each of username, avatar and profile took its
\* incoming value when present and kept its previous value (null for a row
\* just created) when absent
WroteFirstNonNull(incoming) ==
    LET before == last_write.before
    IN  IF IsNone(ResolvedUser) THEN users = before
        ELSE LET u    == Get(ResolvedUser)
                 prev == IF u <= Len(before) THEN before[u]
                         ELSE [username |-> None, avatar |-> None, profile |-> None]
             IN  /\ u \in 1..Len(users)
                 /\ Len(users) >= Len(before)
                 /\ \A i \in 1..Len(users) :
                       i # u => i <= Len(before) /\ users[i] = before[i]
                 /\ users[u].username = FirstNonNull(incoming.username, prev.username)
                 /\ users[u].avatar = FirstNonNull(incoming.avatar, prev.avatar)
                 /\ users[u].profile = FirstNonNull(incoming.profile, prev.profile)

\* C13: profile writes (the profile branch of a login, /auth/profile) are
\* first-non-null-wins per stored field: each of username, avatar and the
\* profile blob takes its incoming value when one is present and keeps its
\* previous value when absent, and no row but the resolved user's changes.
C13_FirstNonNullWins ==
    last_write.op # "none" => WroteFirstNonNull(Incoming)

\* a stricter reading, which the handler does not meet: an empty nickName is
\* stored as the username, yet it does not make /auth/profile rewrite the blob
C13_BlobFollowsAnyNonNullField ==
    last_write.op # "none" => WroteFirstNonNull(IncomingNonNull)

\* /auth/profile with an avatar and no nickname, for user 1 of two users who
\* both logged in with a nickname: user 1 keeps the nickname, takes the avatar
\* and the new blob, and user 2 is as it was
C13_Witness ==
    /\ last_write.op = "update"
    /\ last_write.payload = [nickName |-> None, avatarUrl |-> Some("bob.png")]
    /\ response = ProfileOk
    /\ Len(users) = 2
    /\ ResolvedUser = Some(1)
    /\ last_write.before[1].username = Some("Ann")
    /\ last_write.before[1].avatar = None
    /\ users[1].username = Some("Ann")
    /\ users[1].avatar = Some("bob.png")
    /\ users[1].profile = Some(json_dumps_payload(last_write.payload))
    /\ users[2].username = Some("Ann")
    /\ users[2] = last_write.before[2]

\* a second login of a known user with a profile naming no nickname: the stored
\* nickname stays and the blob is replaced
C13_WitnessLogin ==
    /\ last_write.op = "login"
    /\ ~IsNone(last_write.profile)
    /\ Get(last_write.profile).nickName = None
    /\ ResolvedUser = Some(1)
    /\ Len(last_write.before) >= 1
    /\ last_write.before[1].username = Some("Ann")
    /\ users[1].username = Some("Ann")
    /\ users[1].profile # last_write.before[1].profile

(***************************************************************************)
(* Database connections.  Every helper and handler that talks to the       *)
(* database has the same frame:                                            *)
(*     connection = get_db_connection()                                    *)
(*     try: ... statements, returns, raises ...                            *)
(*     finally: connection.close()                                         *)
(* A worker serves one request at a time and walks through the operations  *)
(* of its handler; each statement may raise.                               *)
(***************************************************************************)
Handlers == {"wechat_login", "update_profile", "get_products", "get_featured_products",
             "get_product_sections", "get_product_detail"}

\* the operation a handler opens its first connection in
first_operation(handler) ==
    IF handler = "wechat_login" THEN "get_or_create_user"
    ELSE IF handler = "update_profile" THEN "get_user_id_from_token"
    ELSE handler

\* the first statement inside the try block of an operation
first_statement(op) ==
    IF op = "get_or_create_user" THEN "select_binding"
    ELSE IF op = "create_session" THEN "insert_session"
    ELSE IF op = "get_user_id_from_token" THEN "select_session"
    ELSE IF op = "update_profile" THEN "update_user"
    ELSE IF op = "get_products" THEN "count"
    ELSE IF op = "get_featured_products" THEN "select_featured"
    ELSE IF op = "get_product_sections" THEN "section1"
    ELSE "select_product"

Goto(at)   == [at |-> at, exit |-> "none"]
Exit(kind) == [at |-> "finally", exit |-> kind]

\* where control goes after a statement that did not raise: the next statement
\* (whichever branch the data selects), or out of the try block
after_statement(op, at) ==
    IF op = "get_or_create_user" THEN
        IF at = "select_binding"
        THEN {Goto("insert_user"), Goto("update_profile_fields"), Goto("update_unionid"),
              Goto("update_last_login")}
        ELSE IF at = "insert_user" THEN {Goto("insert_user_auth")}
        ELSE IF at = "insert_user_auth"
        THEN {Goto("update_profile_fields"), Goto("update_unionid"), Goto("update_last_login")}
        ELSE IF at = "update_profile_fields"
        THEN {Goto("update_unionid"), Goto("update_last_login")}
        ELSE IF at = "update_unionid" THEN {Goto("update_last_login")}
        ELSE {Exit("return")}
    ELSE IF op = "get_user_id_from_token" THEN {Exit("return_none"), Exit("return")}
    ELSE IF op = "get_products" THEN
        IF at = "count" THEN {Goto("list")} ELSE {Exit("return")}
    ELSE IF op = "get_product_sections" THEN
        IF at = "section1" THEN {Goto("section2")}
        ELSE IF at = "section2" THEN {Goto("section3")}
        ELSE IF at = "section3" THEN {Goto("section4")}
        ELSE IF at = "section4" THEN {Goto("section5")}
        ELSE {Exit("return")}
    ELSE IF op = "get_product_detail" THEN
        IF at = "select_product" THEN {Exit("http_404"), Goto("select_links")}
        ELSE {Exit("return")}
    ELSE {Exit("return")}

\* where control goes from a statement: on, or out with the exception it raised
statement_outcomes(op, at) == after_statement(op, at) \cup {Exit("exception")}

\* (variant: the connection is closed on a normal return only)
finally_closes_on_return_only(exit) == exit \in {"return", "return_none"}

\* finally: connection.close() runs on every way out of the try block
finally_closes(exit) == TRUE

\* the operation the handler calls next when one returned, "" when it is done
next_operation(handler, op, exit) ==
    IF handler = "wechat_login" /\ op = "get_or_create_user" /\ exit = "return"
    THEN "create_session"
    ELSE IF handler = "update_profile" /\ op = "get_user_id_from_token" /\ exit = "return"
    THEN "update_profile"
    ELSE ""

IdleCall == [handler |-> "", op |-> "", at |-> "idle", exit |-> "none",
             connection |-> "unbound", closes |-> 0]
Entering(handler, op) ==
    [handler |-> handler, op |-> op, at |-> "connect", exit |-> "none",
     connection |-> "unbound", closes |-> 0]

InitConn ==
    /\ call = [w \in Workers |-> IdleCall]
    /\ db_connections = 0

\* a request arrives.  wechat_login and update_profile may answer before any
\* database work (400 from code2session, 401 for a missing header, 401 for an
\* empty token, which get_user_id_from_token rejects before connecting)
Arrive(w) ==
    /\ call[w].at = "idle"
    /\ \E handler \in Handlers, early \in BOOLEAN :
          call' = [call EXCEPT ![w] =
                      IF early /\ handler \in {"wechat_login", "update_profile"}
                      THEN IdleCall
                      ELSE Entering(handler, first_operation(handler))]
    /\ UNCHANGED db_connections

\* connection = get_db_connection(): it returns an open connection, or raises
\* before the try block is entered and the request fails without a connection
Connect(w) ==
    /\ call[w].at = "connect"
    /\ \/ /\ call' = [call EXCEPT ![w].connection = "open",
                                  ![w].at = first_statement(call[w].op)]
          /\ db_connections' = db_connections + 1
       \/ /\ call' = [call EXCEPT ![w] = IdleCall]
          /\ UNCHANGED db_connections

\* cursor.execute(...) and the code behind it, up to the next statement
Execute(w) ==
    /\ call[w].at \notin {"idle", "connect", "finally", "exited"}
    /\ \E o \in statement_outcomes(call[w].op, call[w].at) :
          call' = [call EXCEPT ![w].at = o.at, ![w].exit = o.exit]
    /\ UNCHANGED db_connections

\* the finally block
Finally(w) ==
    /\ call[w].at = "finally"
    /\ IF finally_closes(call[w].exit)
       THEN /\ call' = [call EXCEPT ![w].at = "exited", ![w].connection = "closed",
                                    ![w].closes = @ + 1]
            /\ db_connections' = db_connections - 1
       ELSE /\ call' = [call EXCEPT ![w].at = "exited"]
            /\ UNCHANGED db_connections

\* the operation has returned or raised: the handler calls its next operation,
\* or the request is answered
Leave(w) ==
    /\ call[w].at = "exited"
    /\ LET next == next_operation(call[w].handler, call[w].op, call[w].exit)
       IN  call' = [call EXCEPT ![w] =
                       IF next = "" THEN IdleCall ELSE Entering(call[w].handler, next)]
    /\ UNCHANGED db_connections

InitConnections ==
    /\ InitStore /\ InitLogin /\ InitChatIdle /\ InitSuggestIdle /\ InitCatalogIdle
    /\ InitDetailIdle /\ InitProfileIdle /\ InitConn
NextConnections ==
    \E w \in Workers :
        \/ Arrive(w) /\ UNCHANGED <<authVars, loginVars, chatVars, sugVars, prodVars,
                                    detailVars, profVars>>
        \/ Connect(w) /\ UNCHANGED <<authVars, loginVars, chatVars, sugVars, prodVars,
                                     detailVars, profVars>>
        \/ Execute(w) /\ UNCHANGED <<authVars, loginVars, chatVars, sugVars, prodVars,
                                     detailVars, profVars>>
        \/ Finally(w) /\ UNCHANGED <<authVars, loginVars, chatVars, sugVars, prodVars,
                                     detailVars, profVars>>
        \/ Leave(w) /\ UNCHANGED <<authVars, loginVars, chatVars, sugVars, prodVars,
                                   detailVars, profVars>>
SpecConn == InitConnections /\ [][NextConnections]_vars

Holding == { w \in Workers : call[w].connection = "open" }
AllIdle == \A w \in Workers : call[w].at = "idle"

\* C14: every connection an operation opened is closed exactly once when the
\* operation is left, whichever way it is left (return, return None, the 404,
\* an exception of any statement); the server holds exactly the connections of
\* the operations still inside their try block, and none once every request
\* is answered.
C14_ConnectionsClosedOnce ==
    /\ \A w \in Workers :
          /\ call[w].closes <= 1
          /\ call[w].at = "exited" => call[w].connection = "closed" /\ call[w].closes = 1
          /\ call[w].at \in {"idle", "connect"} => call[w].connection = "unbound"
    /\ db_connections = Cardinality(Holding)
    /\ AllIdle => db_connections = 0

\* get_product_detail has just left through its 404 with its connection
\* closed, while another request, with the second connection of an
\* update_profile, is inside its try block
C14_Witness ==
    \E v, w \in Workers :
        /\ call[v].op = "get_product_detail" /\ call[v].at = "exited"
        /\ call[v].exit = "http_404" /\ call[v].closes = 1
        /\ call[w].handler = "update_profile" /\ call[w].op = "update_profile"
        /\ call[w].connection = "open"
        /\ db_connections = 1

\* an operation left through an exception of its statement, connection closed
C14_WitnessException ==
    \E w \in Workers :
        /\ call[w].op = "get_or_create_user" /\ call[w].at = "exited"
        /\ call[w].exit = "exception" /\ call[w].connection = "closed"

====
